---- MODULE Spec2Model ----
(***************************************************************************)
(* Model of gen.py, the LWM2M object stub generator.                       *)
(*                                                                         *)
(* main() parses one XML object description into an LWM2MObject with its   *)
(* LWM2MResource list and then writes the output of eight generators, in   *)
(* order, to one file.  Every generator yields text fragments; a fragment  *)
(* is modelled as the sequence of its tokens (the pieces of the template   *)
(* and the values formatted into it), and the file as the sequence of the  *)
(* fragments written to it.                                                *)
(*                                                                         *)
(* Python integers are unbounded: an integer read from a range string is   *)
(* modelled as a sign and a big-endian sequence of base-256 digits.        *)
(***************************************************************************)
EXTENDS Integers, Sequences, FiniteSets, TLC

VARIABLES
    argv,       \* the command line: whether a path was given, and the document it names
    pc,         \* position of main()
    obj,        \* the LWM2MObject built by main(), once built
    err,        \* the exception that ended the run, "" when none
    file,       \* the output file on disk: [exists, content]
    consumed,   \* the generators main() has handed to writelines, in order, this run
    run,        \* 1 in the first run of the tool, 2 in the second
    preFile,    \* the output file as it was when the current run started
    inst,       \* generated code: the instance array inst[MAX_INSTANCE_COUNT]
    instPre,    \* generated code: inst as it was when the last create call started
    req,        \* generated code: obj_inst_id of the last create call, -1 before any
    ret         \* generated code: result of the last create call

vars == <<argv, pc, obj, err, file, consumed, run, preFile,
          inst, instPre, req, ret>>

genVars == <<argv, pc, obj, err, file, consumed, run, preFile>>
rtVars  == <<inst, instPre, req, ret>>

-----------------------------------------------------------------------------
(* Bounds *)

\* most resource items in an input document
MaxFields == 2
\* most base-256 digits of an integer in a range string
MaxLimbs == 5
\* size of the generated instance array (MAX_INSTANCE_COUNT of a build)
MaxInstanceCount == 3
\* largest object instance id passed to the generated create function
MaxInstId == 3

-----------------------------------------------------------------------------
(* The input document *)

\* .text of an element that is present and empty
NoText == "<None>"

\* the name of the object, and the name of the k-th resource item
ObjName == "Test Object"
ItemName(k) ==
    CASE k = 1 -> "Power Src"
      [] k = 2 -> "Reboot"
      [] k = 3 -> "Err Code"
      [] OTHER -> "Reset Min Max"

\* the child elements the constructors read with find(...).text
ObjElems  == {"Name", "Description1", "ObjectID", "ObjectURN", "ObjectVersion",
              "MultipleInstances", "Mandatory"}
ItemElems == {"Name", "Operations", "MultipleInstances", "Mandatory", "Type",
              "Description"}

\* a Python int: sign and magnitude (base 256, most significant digit first,
\* no leading zero; <<>> is 0)
PyInt(neg, mag) == [neg |-> neg, mag |-> mag]
Zero == PyInt(FALSE, <<>>)

\* the RangeEnumeration text: empty, not matching range_regex, or min..max
NoRange      == [kind |-> "none",    min |-> Zero, max |-> Zero]
BadRange     == [kind |-> "nomatch", min |-> Zero, max |-> Zero]
Range(lo, hi) == [kind |-> "range",  min |-> lo,   max |-> hi]

Item(k, absent, ops, multi, mand, type, range) ==
    [id |-> k, name |-> ItemName(k), absent |-> absent, operations |-> ops,
     multi |-> multi, mandatory |-> mand, type |-> type, range |-> range]

Doc(absent, multi, items) ==
    [name |-> ObjName, id |-> 9999, absent |-> absent, multi |-> multi,
     mandatory |-> "Mandatory", items |-> items]

-----------------------------------------------------------------------------
(* The model built from the document *)

\* str.upper() on the Operations texts that occur
Upper(s) ==
    CASE s = "e"  -> "E"
      [] s = "rw" -> "RW"
      [] OTHER    -> s

is_exec(res) == Upper(res.operations) = "E"

\* x < 0 for a Python int
Negative(x) == x.neg /\ x.mag # <<>>

RECURSIVE BitLen(_)
BitLen(d) == IF d = 0 THEN 0 ELSE 1 + BitLen(d \div 2)

RECURSIVE Pow2(_)
Pow2(n) == IF n = 0 THEN 1 ELSE 2 * Pow2(n - 1)

\* int.bit_length() of a magnitude
MagBits(mag) == IF mag = <<>> THEN 0 ELSE 8 * (Len(mag) - 1) + BitLen(Head(mag))

\* whether a magnitude is a power of two
MagIsPow2(mag) ==
    /\ mag # <<>>
    /\ Head(mag) = Pow2(BitLen(Head(mag)) - 1)
    /\ \A i \in 2..Len(mag) : mag[i] = 0

\* math.log2(x) for x > 0, a real number: its integer part, and whether it is
\* that integer exactly (x a power of two) or lies strictly above it.  (The
\* double math.log2 returns rounds to no other integer for x below 2^48, the
\* range MaxLimbs keeps the inputs in.)
log2(x) == [floor |-> MagBits(x.mag) - 1, exact |-> MagIsPow2(x.mag)]

\* int(math.ceil(l / 8.0) * 8)
CeilBytes(l) ==
    (IF l.exact THEN (l.floor + 7) \div 8 ELSE (l.floor \div 8) + 1) * 8

Resource(item, sized, signed, byte_size) ==
    [id |-> item.id, name |-> item.name, operations |-> item.operations,
     singleton |-> (item.multi = "Single"),
     mandatory |-> (item.mandatory = "Mandatory"),
     type |-> item.type, sized |-> sized, signed |-> signed,
     byte_size |-> byte_size]

Raised(e) == [err |-> e]
Built(r)  == [err |-> "", res |-> r]

\* the Integer branch of LWM2MResource.__init__, the range text being present
IntegerInit(item) ==
    LET r == item.range IN
    IF r.kind = "none" THEN Built(Resource(item, TRUE, TRUE, 32))
    ELSE IF r.kind = "nomatch" THEN Raised("AttributeError")
    ELSE IF r.max.neg \/ r.max.mag = <<>> THEN Raised("ValueError")
    ELSE LET signed == Negative(r.min)
             width  == CeilBytes(log2(r.max))
             size   == IF signed THEN width * 2 ELSE width
         IN  IF size <= 64 THEN Built(Resource(item, TRUE, signed, size))
             ELSE Raised("AssertionError")

\* LWM2MResource.__init__: the resource, or the exception raised
ResourceInit(item) ==
    IF item.absent \cap ItemElems # {} THEN Raised("AttributeError")
    ELSE LET made == IF item.type = "Integer"
                     THEN IF "RangeEnumeration" \in item.absent
                          THEN Raised("AttributeError")
                          ELSE IntegerInit(item)
                     ELSE Built(Resource(item, FALSE, FALSE, 0))
         IN  IF made.err # "" THEN made
             ELSE IF item.operations = NoText THEN Raised("AttributeError")
             ELSE IF ~is_exec(made.res) /\ item.type = NoText THEN Raised("TypeError")
             ELSE made

RECURSIVE ResourcesInit(_)
\* the loop of LWM2MObject.__init__ over the items: stops at the first that raises
ResourcesInit(items) ==
    IF items = <<>> THEN [err |-> "", resources |-> <<>>]
    ELSE LET first == ResourceInit(Head(items)) IN
         IF first.err # "" THEN [err |-> first.err, resources |-> <<>>]
         ELSE LET rest == ResourcesInit(Tail(items)) IN
              IF rest.err # "" THEN rest
              ELSE [err |-> "", resources |-> <<first.res>> \o rest.resources]

\* LWM2MObject.__init__
ObjectInit(doc) ==
    IF doc.absent \cap ObjElems # {} THEN [err |-> "AttributeError"]
    ELSE LET rs == ResourcesInit(doc.items) IN
         IF rs.err # "" THEN [err |-> rs.err]
         ELSE [err |-> "", obj |-> [name |-> doc.name, id |-> doc.id,
                                    singleton |-> (doc.multi = "Single"),
                                    mandatory |-> (doc.mandatory = "Mandatory"),
                                    resources |-> rs.resources]]

NoObject == [name |-> "", id |-> 0, singleton |-> TRUE, mandatory |-> TRUE,
             resources |-> <<>>]


-----------------------------------------------------------------------------
(* Names *)

\* string.upper().replace(" ", "_") on the names that occur
def_format(string) ==
    CASE string = "Test Object"   -> "TEST_OBJECT"
      [] string = "Power Src"     -> "POWER_SRC"
      [] string = "Reboot"        -> "REBOOT"
      [] string = "Err Code"      -> "ERR_CODE"
      [] string = "Reset Min Max" -> "RESET_MIN_MAX"

\* string.lower().replace(" ", "_") on the names that occur
name_format(string) ==
    CASE string = "Test Object"   -> "test_object"
      [] string = "Power Src"     -> "power_src"
      [] string = "Reboot"        -> "reboot"
      [] string = "Err Code"      -> "err_code"
      [] string = "Reset Min Max" -> "reset_min_max"

gen_obj_id_def(o) == "LWM2M_OBJECT_" \o def_format(o.name) \o "_ID"

gen_max_id(o) == def_format(o.name) \o "_MAX_ID"

gen_res_def_name(o, res) == def_format(o.name) \o "_" \o def_format(res.name)

gen_res_id_name(o, res) == gen_res_def_name(o, res) \o "_ID"

gen_res_max_name(o, res) == gen_res_def_name(o, res) \o "_MAX"

gen_data_struct_var_name(o) == name_format(o.name) \o "_data"

gen_data_struct_type(o) == "struct " \o gen_data_struct_var_name(o) \o "_t"

gen_exec_cb_name(res) == "state_" \o name_format(res.name) \o "_exec_cb"

-----------------------------------------------------------------------------
(* The generators.  Each is the sequence of the fragments it yields.        *)

RECURSIVE Flatten(_)
\* the concatenation of a sequence of sequences
Flatten(ss) == IF ss = <<>> THEN <<>> ELSE Head(ss) \o Flatten(Tail(ss))

gen_file_head(o) ==
    << <<"/*\n">>,
       <<" * This is a generated stub\n">>,
       <<" *\n">>,
       <<" * SPDX-License-Identifier: Apache-2.0\n">>,
       <<" */\n\n">>,
       <<"#define LOG_MODULE_NAME net_lwm2m_obj_", name_format(o.name), "\n">>,
       <<"#define LOG_LEVEL CONFIG_LWM2M_LOG_LEVEL\n\n">>,
       <<"#include <logging/log.h>\n">>,
       <<"LOG_MODULE_REGISTER(LOG_MODULE_NAME);\n\n">>,
       <<"#include <string.h>\n">>,
       <<"#include <stdio.h>\n">>,
       <<"#include <init.h>\n\n">>,
       <<"#include \"lwm2m_object.h\"\n">>,
       <<"#include \"lwm2m_engine.h\"\n\n">> >>

\* the #ifdef CONFIG_x / #define x CONFIG_x / #else / #define x 1 / #endif block
\* of one multi-instance resource
ResMaxDef(o, res) ==
    IF res.singleton THEN <<>>
    ELSE LET max_name == gen_res_max_name(o, res) IN
         << <<"#ifdef ", "CONFIG_" \o max_name, "\n">>,
            <<"#define ", max_name, " ", "CONFIG_" \o max_name, "\n">>,
            <<"#else\n">>,
            <<"// FIXME: This default value is generated. Please evaluate if it is sane and remove this comment.\n">>,
            <<"#define ", max_name, " ", "1", "\n">>,
            <<"#endif\n\n">> >>

gen_res_defs(o) ==
    LET conf_name == "CONFIG_LWM2M_" \o def_format(o.name) \o "_INSTANCE_COUNT"
        ResIdDef(res) ==
            << <<"#define ", gen_res_id_name(o, res), " ", ToString(res.id), "\n">> >>
        ResMax(res) == ResMaxDef(o, res)
    IN  << <<"// FIXME: This should probably be defined elsewhere\n">>,
           <<"#define ", gen_obj_id_def(o), " ", ToString(o.id), "\n\n">>,
           <<"/* ", o.name, " resource IDs */\n">> >>
        \o Flatten([i \in 1..Len(o.resources) |-> ResIdDef(o.resources[i])])
        \o << <<"#define ", gen_max_id(o), " ", ToString(Len(o.resources)), "\n">>,
              <<"\n">> >>
        \o (IF ~o.singleton
            THEN << <<"#ifdef ", conf_name, "\n">>,
                    <<"#define ", "MAX_INSTANCE_COUNT", " ", conf_name, "\n">>,
                    <<"#else\n">>,
                    <<"// FIXME: This default value is generated. Please evaluate if it is sane and remove this comment.\n">>,
                    <<"#define ", "MAX_INSTANCE_COUNT", " ", "1", "\n">>,
                    <<"#endif\n\n">> >>
            ELSE <<>>)
        \o Flatten([i \in 1..Len(o.resources) |-> ResMax(o.resources[i])])

RECURSIVE CountExec(_)
\* nr_exec of gen_res_inst_count
CountExec(rs) ==
    IF rs = <<>> THEN 0
    ELSE (IF is_exec(Head(rs)) THEN 1 ELSE 0) + CountExec(Tail(rs))

RECURSIVE MultiResources_NoExecTest(_)
\* MultiResources with `if` for `elif`: a multi-instance execute resource counts
MultiResources_NoExecTest(rs) ==
    IF rs = <<>> THEN <<>>
    ELSE (IF ~Head(rs).singleton THEN <<Head(rs)>> ELSE <<>>)
         \o MultiResources_NoExecTest(Tail(rs))

RECURSIVE MultiResources(_)
\* multi_resources of gen_res_inst_count
MultiResources(rs) ==
    IF rs = <<>> THEN <<>>
    ELSE (IF is_exec(Head(rs)) THEN <<>>
          ELSE IF ~Head(rs).singleton THEN <<Head(rs)>>
          ELSE <<>>) \o MultiResources(Tail(rs))

gen_res_inst_count(o) ==
    LET nr_exec == CountExec(o.resources)
        multi_resources == MultiResources(o.resources)
        AddComment(res) == << <<" * add ", gen_res_max_name(o, res), "\n">> >>
        AddTerm(res) == << <<" \\\n                                 + ", gen_res_max_name(o, res)>> >>
    IN  << <<"/*\n">>,
           <<" * Calculate resource instances as follows:\n">>,
           <<" * start with DEVICE_MAX_ID\n">>,
           <<" * subtract EXEC resources (", ToString(nr_exec), ")\n">>,
           <<" * subtract MULTI resources because their counts include 0 resource (",
             ToString(Len(multi_resources)), ")\n">> >>
        \o Flatten([i \in 1..Len(multi_resources) |-> AddComment(multi_resources[i])])
        \o << <<" */\n">>,
              <<"#define ", "RESOURCE_INSTANCE_COUNT", " (", gen_max_id(o), " - ",
                ToString(nr_exec), " - ", ToString(Len(multi_resources))>> >>
        \o (IF Len(multi_resources) > 0 THEN Flatten([i \in 1..Len(multi_resources) |-> AddTerm(multi_resources[i])])
            ELSE <<>>)
        \o << <<")\n">> >>


\* what a generator gave before it ended: its fragments, and whether it ended
\* by raising Exception("Unhandled / bad resource type")
Yielded(frags) == [frags |-> frags, raised |-> FALSE]
Broke(frags)   == [frags |-> frags, raised |-> TRUE]

\* the storage type of a non-execute resource: <<typ, typ_suffix>>, <<>> when
\* the type is not handled
StorageType(res) ==
    CASE res.type = "String"  -> <<"char", "[64]">>
      [] res.type = "Integer" ->
            <<(IF res.signed THEN "" ELSE "u") \o "int"
                  \o ToString(res.byte_size) \o "_t", "">>
      [] res.type = "Objlnk"  -> <<"struct lwm2m_objlnk", "">>
      [] res.type = "Float"   -> <<"float32_value_t", "">>
      [] res.type = "Opaque"  -> <<"uint8_t", "[64]">>
      [] res.type = "Time"    -> <<"uint32_t", "">>
      [] res.type = "Boolean" -> <<"bool", "">>
      [] OTHER                -> <<>>

RECURSIVE StructMembers(_)
\* the loop of gen_data_struct over the resources
StructMembers(rs) ==
    IF rs = <<>> THEN Yielded(<<>>)
    ELSE LET res == Head(rs) IN
         IF is_exec(res) THEN StructMembers(Tail(rs))
         ELSE LET st == StorageType(res) IN
              IF st = <<>> THEN Broke(<<>>)
              ELSE LET rest == StructMembers(Tail(rs))
                       member == <<"\t", st[1], " ", name_format(res.name), st[2], ";\n">>
                   IN  [rest EXCEPT !.frags = <<member>> \o @]

gen_data_struct(o) ==
    LET members == StructMembers(o.resources)
        open == << <<gen_data_struct_type(o), " {\n">> >>
        arr_suffix == IF ~o.singleton THEN <<"[", "MAX_INSTANCE_COUNT", "]">> ELSE <<>>
    IN  IF members.raised THEN Broke(open \o members.frags)
        ELSE Yielded(open \o members.frags
                     \o << <<"};\n\n">>,
                           <<"static ", gen_data_struct_type(o), " ",
                             gen_data_struct_var_name(o)>> \o arr_suffix \o <<";\n\n">> >>)

\* the type tag of a data resource in the field table, "" when not handled
FieldTypeTag(res) ==
    CASE res.type = "String"  -> "STRING"
      [] res.type = "Integer" ->
            (IF res.signed THEN "S" ELSE "U") \o ToString(res.byte_size)
      [] res.type = "Objlnk"  -> "OBJLNK"
      [] res.type = "Float"   -> "FLOAT32"
      [] res.type = "Opaque"  -> "OPAQUE"
      [] res.type = "Time"    -> "TIME"
      [] res.type = "Boolean" -> "BOOL"
      [] OTHER                -> ""

\* gen_field: the tokens of the descriptor, <<>> when it raises
gen_field(o, res) ==
    IF is_exec(res)
    THEN <<"OBJ_FIELD_EXECUTE" \o (IF res.mandatory THEN "" ELSE "_OPT"), "(",
           gen_res_id_name(o, res), ")">>
    ELSE LET ops == IF res.mandatory THEN res.operations
                    ELSE res.operations \o "_OPT"
             typ == FieldTypeTag(res)
         IN  IF typ = "" THEN <<>>
             ELSE <<"OBJ_FIELD_DATA", "(", gen_res_id_name(o, res), ", ", ops, ", ",
                    typ, ")">>

RECURSIVE FieldEntries(_, _, _)
\* the loop of gen_fields over enumerate(obj.resources), from index ix on
FieldEntries(o, rs, ix) ==
    IF ix > Len(rs) THEN Yielded(<<>>)
    ELSE LET f == gen_field(o, rs[ix]) IN
         IF f = <<>> THEN Broke(<<>>)
         ELSE LET rest == FieldEntries(o, rs, ix + 1)
                  entry == << <<"\t">> \o f >>
                               \o (IF ix < Len(rs) THEN << <<",">> >> ELSE <<>>)
                               \o << <<"\n">> >>
              IN  [rest EXCEPT !.frags = entry \o @]

gen_fields(o) ==
    LET max_inst == IF o.singleton THEN <<>> ELSE <<"[", "MAX_INSTANCE_COUNT", "]">>
        head == << <<"static struct lwm2m_engine_obj ", name_format(o.name), ";\n">>,
                   <<"static struct lwm2m_engine_obj_field fields[] = {\n">> >>
        entries == FieldEntries(o, o.resources, 1)
    IN  IF entries.raised THEN Broke(head \o entries.frags)
        ELSE Yielded(head \o entries.frags
               \o << <<"};\n\n">>,
                     <<"static struct lwm2m_engine_obj_inst inst">> \o max_inst \o <<";\n">>,
                     <<"static struct lwm2m_engine_res res">> \o max_inst
                         \o <<"[", gen_max_id(o), "];\n">>,
                     <<"static struct lwm2m_engine_res_inst res_inst">> \o max_inst
                         \o <<"[", "RESOURCE_INSTANCE_COUNT", "];\n">>,
                     <<"\n">> >>)

\* ExecCb comparing the operations with "E" as written, without upper()
ExecCb_CaseSensitive(res) ==
    IF ~(res.operations = "E") \/ ~res.mandatory THEN <<>>
    ELSE << <<"static int ", gen_exec_cb_name(res), "(uint16_t obj_inst_id)\n">>,
            <<"{\n">>,
            <<"\t/* FIXME: Add exec callback implementation here */\n">>,
            <<"\treturn 0;\n">>,
            <<"}\n\n">> >>

\* the stub of one resource: only a mandatory execute resource has one
ExecCb(res) ==
    IF ~is_exec(res) \/ ~res.mandatory THEN <<>>
    ELSE << <<"static int ", gen_exec_cb_name(res), "(uint16_t obj_inst_id)\n">>,
            <<"{\n">>,
            <<"\t/* FIXME: Add exec callback implementation here */\n">>,
            <<"\treturn 0;\n">>,
            <<"}\n\n">> >>

gen_exec_cbs(o) == Flatten([i \in 1..Len(o.resources) |-> ExecCb(o.resources[i])])


\* the text of the slot search the create function of a multi-instance object
\* starts with; CheckAvail below is what that text does when it runs
CHECK_AVAIL ==
    <<"\n" \o
      "    /* Check that there is no other instance with this ID */\n" \o
      "\tfor (index = 0; index < ARRAY_SIZE(inst); index++) {\n" \o
      "\t\tif (inst[index].obj && inst[index].obj_inst_id == obj_inst_id) {\n" \o
      "\t\t\tLOG_ERR(\"Can not create instance - \"\n" \o
      "\t\t\t\t\"already existing: %u\", obj_inst_id);\n" \o
      "\t\t\treturn NULL;\n" \o
      "\t\t}\n" \o
      "\n" \o
      "\t\t/* Save first available slot index */\n" \o
      "\t\tif (avail < 0 && !inst[index].obj) {\n" \o
      "\t\t\tavail = index;\n" \o
      "\t\t}\n" \o
      "\t}\n" \o
      "\n" \o
      "\tif (avail < 0) {\n" \o
      "\t\tLOG_ERR(\"Can not create instance - no more room: %u\",\n" \o
      "\t\t\tobj_inst_id);\n" \o
      "\t\treturn NULL;\n" \o
      "\t}\n" \o
      "    ">>

\* InitMacro with the two markers put in the other order
InitMacro_OptFirst(res) ==
    LET multi  == IF ~res.singleton THEN "MULTI_" ELSE ""
        prefix == IF ~res.mandatory THEN "OPT" \o multi ELSE multi
    IN  "INIT_OBJ_RES_" \o prefix \o "DATA"

\* "INIT_OBJ_RES_{}DATA".format(prefix) for a non-execute resource
InitMacro(res) ==
    LET opt    == IF ~res.mandatory THEN "OPT" ELSE ""
        prefix == IF ~res.singleton THEN "MULTI_" \o opt ELSE opt
    IN  "INIT_OBJ_RES_" \o prefix \o "DATA"

RECURSIVE Spaces(_)
\* " " * n
Spaces(n) == IF n = 0 THEN "" ELSE " " \o Spaces(n - 1)

\* the fragments of the initialization call of one resource
InitCall(o, res, data_str, res_str, res_inst_str) ==
    IF is_exec(res)
    THEN << <<"\t", "INIT_OBJ_RES_EXECUTE", "(", gen_res_id_name(o, res), ", ",
              res_str, ", i,\n">>,
            <<"\t                 ">>,
            <<IF res.mandatory THEN gen_exec_cb_name(res) ELSE "NULL">>,
            <<");\n">> >>
    ELSE LET macro  == InitMacro(res)
             spaces == Spaces(Len(macro))
         IN
         << <<"\t", macro, "(", gen_res_id_name(o, res), ",\n">>,
            <<"\t" \o spaces \o " ", res_str, ", i, ", res_inst_str, ", j">> >>
         \o (IF ~res.singleton
             THEN << <<",\n">>,
                     <<"\t" \o spaces \o " ", gen_res_max_name(o, res), ", false">> >>
             ELSE <<>>)
         \o (IF res.mandatory
             THEN << <<",\n">>,
                     <<"\t" \o spaces \o " ", "&", data_str, name_format(res.name), ",\n">>,
                     <<"\t" \o spaces \o " ", "sizeof(", data_str, name_format(res.name), ")">> >>
             ELSE <<>>)
         \o << <<");\n">> >>

gen_create_func(o) ==
    LET var      == gen_data_struct_var_name(o)
        data_str == IF ~o.singleton THEN "instance->" ELSE var \o "."
        res_str      == IF ~o.singleton THEN "res[avail]" ELSE "res"
        res_inst_str == IF ~o.singleton THEN "res_inst[avail]" ELSE "res_inst"
        inst_str     == IF ~o.singleton THEN "inst[avail]" ELSE "inst"
        Call(res) == InitCall(o, res, data_str, res_str, res_inst_str)
    IN  << <<"static struct lwm2m_engine_obj_inst *", name_format(o.name),
             "_create(uint16_t obj_inst_id)\n">>,
           <<"{\n">>,
           <<"\tint i = 0;\n">>,
           <<"\tint j = 0;\n\n">>,
           <<"\t/* Set default values */\n">> >>
        \o (IF ~o.singleton
            THEN << <<"\tint index = -1;\n">>,
                    <<"\tint avail = -1;\n">>,
                    <<"\t", gen_data_struct_type(o), " *instance;\n">>,
                    CHECK_AVAIL,
                    <<"\tinstance = &", var, "[avail];\n">>,
                    <<"\t(void)memset(instance, 0, sizeof(", var, "[avail]));\n">> >>
            ELSE << <<"\t(void)memset(&", var, ", 0, sizeof(", var, "));\n">> >>)
        \o << <<"\t(void)memset(", res_str, ", 0,\n">>,
              <<"\t             sizeof(", res_str, "[0]) * ARRAY_SIZE(", res_str, "));\n\n">>,
              <<"\tinit_res_instance(", res_inst_str, ", ARRAY_SIZE(", res_inst_str, "));\n\n">>,
              <<"\t/* initialize instance resource data */\n">> >>
        \o Flatten([i \in 1..Len(o.resources) |-> Call(o.resources[i])])
        \o << <<"\n\t", inst_str, ".resources = ", res_str, ";\n">>,
              <<"\t", inst_str, ".resource_count = i;\n">>,
              <<"\n\tLOG_DBG(\"Create ", o.name, " instance: %d\", obj_inst_id);\n\n">>,
              <<"\treturn &", inst_str, ";\n">>,
              <<"}\n\n">> >>

gen_init_func(o) ==
    LET n == name_format(o.name) IN
        << <<"static int lwm2m_", n, "_init(const struct device *dev)\n">>,
           <<"{\n">> >>
        \o (IF o.singleton
            THEN << <<"\tstruct lwm2m_engine_obj_inst *obj_inst;\n">>,
                    <<"\tint ret;\n\n">> >>
            ELSE <<>>)
        \o << <<"\t", n, ".obj_id = ", gen_obj_id_def(o), ";\n">>,
              <<"\t", n, ".fields = fields;\n">>,
              <<"\t", n, ".field_count = ARRAY_SIZE(fields);\n">> >>
        \o (IF o.singleton
            THEN << <<"\t", n, ".max_instance_count = ", "1", ";\n">> >>
            ELSE << <<"\t", n, ".max_instance_count = ", "MAX_INSTANCE_COUNT", ";\n">> >>)
        \o << <<"\t", n, ".create_cb = ", n, "_create;\n">>,
              <<"\tlwm2m_register_obj(&", n, ");\n\n">> >>
        \o (IF o.singleton
            THEN << <<"\t/* auto create the only instance */\n">>,
                    <<"\tobj_inst = NULL;\n">>,
                    <<"\tret = lwm2m_create_obj_inst(">>,
                    <<gen_obj_id_def(o), ", 0, &obj_inst);\n">>,
                    <<"\tif (ret < 0) {\n">>,
                    <<"\t\tLOG_DBG(\"Create LWM2M instance 0 error: %d\", ret);\n">>,
                    <<"\t}\n\n">>,
                    <<"\treturn ret;\n">> >>
            ELSE << <<"\treturn 0;\n">> >>)
        \o << <<"}\n\n">>,
              <<"SYS_INIT(lwm2m_", n, "_init, APPLICATION, ">>,
              <<"CONFIG_KERNEL_INIT_PRIORITY_DEFAULT);\n">> >>


-----------------------------------------------------------------------------
(* main() *)

\* the null result of the generated create function
NULL == -1

NoFile == [exists |-> FALSE, content |-> <<>>]

\* the order in which main() hands the generators to f.writelines
FirstStage == "file_head"

\* StageAfter with the stubs written after the create function
StageAfter_StubsLate(s) ==
    CASE s = "file_head"      -> "res_defs"
      [] s = "res_defs"       -> "res_inst_count"
      [] s = "res_inst_count" -> "data_struct"
      [] s = "data_struct"    -> "fields"
      [] s = "fields"         -> "create_func"
      [] s = "create_func"    -> "exec_cbs"
      [] s = "exec_cbs"       -> "init_func"
      [] s = "init_func"      -> "done"

StageAfter(s) ==
    CASE s = "file_head"      -> "res_defs"
      [] s = "res_defs"       -> "res_inst_count"
      [] s = "res_inst_count" -> "data_struct"
      [] s = "data_struct"    -> "fields"
      [] s = "fields"         -> "exec_cbs"
      [] s = "exec_cbs"       -> "create_func"
      [] s = "create_func"    -> "init_func"
      [] s = "init_func"      -> "done"

\* main() with no argument: prints the usage text and returns
Usage ==
    /\ pc = "start"
    /\ ~argv.given
    /\ pc' = "usage"
    /\ UNCHANGED <<argv, obj, err, file, consumed, run, preFile, rtVars>>

\* Parse with the output file opened before the model is built
Parse_OpenFirst ==
    /\ pc = "start"
    /\ argv.given
    /\ LET made == ObjectInit(argv.doc) IN
       IF made.err # ""
       THEN pc' = "failed" /\ err' = made.err /\ obj' = obj
       ELSE pc' = "open" /\ err' = err /\ obj' = made.obj
    /\ file' = [exists |-> TRUE, content |-> <<>>]
    /\ UNCHANGED <<argv, consumed, run, preFile, rtVars>>

\* ET.parse, getroot and LWM2MObject(root.find("Object"))
Parse ==
    /\ pc = "start"
    /\ argv.given
    /\ LET made == ObjectInit(argv.doc) IN
       IF made.err # ""
       THEN pc' = "failed" /\ err' = made.err /\ obj' = obj
       ELSE pc' = "open" /\ err' = err /\ obj' = made.obj
    /\ UNCHANGED <<argv, file, consumed, run, preFile, rtVars>>

\* OpenFile in mode "a": what the file held stays
OpenFile_Append ==
    /\ pc = "open"
    /\ file' = [exists |-> TRUE, content |-> file.content]
    /\ pc' = FirstStage
    /\ UNCHANGED <<argv, obj, err, consumed, run, preFile, rtVars>>

\* open("lwm2m_obj_{}_stub.c".format(...), "w"): creates or truncates the file
OpenFile ==
    /\ pc = "open"
    /\ file' = [exists |-> TRUE, content |-> <<>>]
    /\ pc' = FirstStage
    /\ UNCHANGED <<argv, obj, err, consumed, run, preFile, rtVars>>

\* f.writelines(g): every fragment g yields is written; when g raises, those it
\* yielded before are in the file, the with statement closes it and main() ends
WriteLines(s, out) ==
    /\ pc = s
    /\ file' = [file EXCEPT !.content = @ \o out.frags]
    /\ consumed' = Append(consumed, s)
    /\ IF out.raised
       THEN pc' = "failed" /\ err' = "Exception"
       ELSE pc' = StageAfter(s) /\ err' = err
    /\ UNCHANGED <<argv, obj, run, preFile, rtVars>>

WriteFileHead     == WriteLines("file_head", Yielded(gen_file_head(obj)))
WriteResDefs      == WriteLines("res_defs", Yielded(gen_res_defs(obj)))
WriteResInstCount == WriteLines("res_inst_count", Yielded(gen_res_inst_count(obj)))
WriteDataStruct   == WriteLines("data_struct", gen_data_struct(obj))
WriteFields       == WriteLines("fields", gen_fields(obj))
WriteExecCbs      == WriteLines("exec_cbs", Yielded(gen_exec_cbs(obj)))
WriteCreateFunc   == WriteLines("create_func", Yielded(gen_create_func(obj)))
WriteInitFunc     == WriteLines("init_func", Yielded(gen_init_func(obj)))

\* the tool, having generated the file, is run a second time on the same
\* command line
Rerun ==
    /\ pc = "done"
    /\ run = 1
    /\ run' = 2
    /\ pc' = "start"
    /\ obj' = NoObject
    /\ err' = ""
    /\ consumed' = <<>>
    /\ preFile' = file
    /\ UNCHANGED <<argv, file, rtVars>>

Next ==
    \/ Usage
    \/ Parse
    \/ OpenFile
    \/ WriteFileHead
    \/ WriteResDefs
    \/ WriteResInstCount
    \/ WriteDataStruct
    \/ WriteFields
    \/ WriteExecCbs
    \/ WriteCreateFunc
    \/ WriteInitFunc
    \/ Rerun

-----------------------------------------------------------------------------
(* Inputs *)

RECURSIVE SeqsUpTo(_, _)
\* the sequences over S of length at most n
SeqsUpTo(S, n) ==
    IF n = 0 THEN {<<>>}
    ELSE LET shorter == SeqsUpTo(S, n - 1) IN
         shorter \cup {Append(q, x) : q \in {t \in shorter : Len(t) = n - 1}, x \in S}

\* the k-th item of a document: an execute resource (which carries no type) or
\* a data resource of a known or an unknown type; its Mandatory element may be
\* missing
ItemChoices(k) ==
    {Item(k, IF m = "absent" THEN {"Mandatory"} ELSE {}, o, mi, m, NoText, NoRange)
        : o \in {"E", "e"}, mi \in {"Single", "Multiple"},
          m \in {"Mandatory", "Optional", "absent"}}
    \cup
    {Item(k, IF m = "absent" THEN {"Mandatory"} ELSE {}, "RW", mi, m, t, NoRange)
        : mi \in {"Single", "Multiple"},
          m \in {"Mandatory", "Optional", "absent"}, t \in {"String", "Corge"}}

RECURSIVE ItemSeqs(_)
\* the item lists of exactly n items
ItemSeqs(n) ==
    IF n = 0 THEN {<<>>}
    ELSE {Append(q, it) : q \in ItemSeqs(n - 1), it \in ItemChoices(n)}

Docs ==
    {Doc({}, mi, items) : mi \in {"Single", "Multiple"},
                          items \in UNION {ItemSeqs(n) : n \in 0..MaxFields}}
    \cup {Doc({"Mandatory"}, "Single", items) : items \in ItemSeqs(1)}

StaleFile == [exists |-> TRUE, content |-> << <<"stale\n">> >>]

InitMain(docs) ==
    /\ argv \in {[given |-> TRUE, doc |-> d] : d \in docs}
               \cup {[given |-> FALSE, doc |-> Doc({}, "Single", <<>>)]}
    /\ pc = "start"
    /\ obj = NoObject
    /\ err = ""
    /\ file \in {NoFile, StaleFile}
    /\ consumed = <<>>
    /\ run = 1
    /\ preFile = file
    /\ inst = <<>>
    /\ instPre = <<>>
    /\ req = -1
    /\ ret = NULL

Init == InitMain(Docs)

Spec == Init /\ [][Next]_vars


-----------------------------------------------------------------------------
(* The generated create function of a multi-instance object, at run time *)

\* a slot of inst[]: .obj is the owning object pointer (set or NULL)
FreeSlot == [obj |-> FALSE, obj_inst_id |-> 0]

RECURSIVE ScanFrom(_, _, _, _)
\* the for loop of CHECK_AVAIL from `index` on (indices count from 0), then the
\* test of avail: NULL, or the slot found
ScanFrom(a, obj_inst_id, index, avail) ==
    IF index < Len(a)
    THEN IF a[index + 1].obj /\ a[index + 1].obj_inst_id = obj_inst_id
         THEN NULL
         ELSE ScanFrom(a, obj_inst_id, index + 1,
                       IF avail < 0 /\ ~a[index + 1].obj THEN index ELSE avail)
    ELSE IF avail < 0 THEN NULL ELSE avail

RECURSIVE ScanToFirstFree(_, _, _)
\* the loop leaving at the first free slot, the slots behind it not looked at
ScanToFirstFree(a, obj_inst_id, index) ==
    IF index < Len(a)
    THEN IF a[index + 1].obj /\ a[index + 1].obj_inst_id = obj_inst_id THEN NULL
         ELSE IF ~a[index + 1].obj THEN index
         ELSE ScanToFirstFree(a, obj_inst_id, index + 1)
    ELSE NULL

CheckAvail_StopAtFirstFree(a, obj_inst_id) == ScanToFirstFree(a, obj_inst_id, 0)

\* what the emitted CHECK_AVAIL text computes, with index = 0 and avail = -1
CheckAvail(a, obj_inst_id) == ScanFrom(a, obj_inst_id, 0, -1)

\* the engine, given the instance the create callback returned, makes it the
\* instance obj_inst_id of the object
EngineRegister(a, slot, obj_inst_id) ==
    [a EXCEPT ![slot + 1] = [obj |-> TRUE, obj_inst_id |-> obj_inst_id]]

\* the engine calls the create callback and registers the instance it returns
Create(obj_inst_id) ==
    /\ req' = obj_inst_id
    /\ instPre' = inst
    /\ ret' = CheckAvail(inst, obj_inst_id)
    /\ inst' = IF ret' = NULL THEN inst ELSE EngineRegister(inst, ret', obj_inst_id)
    /\ UNCHANGED genVars

\* the engine deletes an instance: its slot is cleared
Delete(slot) ==
    /\ inst[slot + 1].obj
    /\ inst' = [inst EXCEPT ![slot + 1] = FreeSlot]
    /\ UNCHANGED <<instPre, req, ret, genVars>>

CreateCall == \E id \in 0..MaxInstId : Create(id)
DeleteCall == \E slot \in 0..(Len(inst) - 1) : Delete(slot)

NextCreate ==
    \/ CreateCall
    \/ DeleteCall

\* the stub of a multi-instance object, built with 1..MaxInstanceCount slots,
\* all free at start (static storage)
InitCreate ==
    /\ argv = [given |-> TRUE, doc |-> Doc({}, "Multiple", <<>>)]
    /\ pc = "runtime"
    /\ obj = NoObject
    /\ err = ""
    /\ file = NoFile
    /\ consumed = <<>>
    /\ run = 1
    /\ preFile = NoFile
    /\ inst \in {[i \in 1..n |-> FreeSlot] : n \in 1..MaxInstanceCount}
    /\ instPre = inst
    /\ req = -1
    /\ ret = NULL

SpecCreate == InitCreate /\ [][NextCreate]_vars


\* documents of one Integer resource: its range element missing, empty, not a
\* range, or min..max over magnitudes of up to MaxLimbs digits
Mags ==
    {m \in SeqsUpTo({0, 1, 128, 255}, MaxLimbs) :
        /\ m # <<>>
        /\ Head(m) # 0
        /\ \A i \in 2..Len(m) : m[i] \in {0, 1}}

IntRanges ==
    {Range(lo, PyInt(FALSE, m)) :
        lo \in {PyInt(TRUE, <<1>>), Zero, PyInt(FALSE, <<1>>)}, m \in Mags}
    \cup {Range(Zero, Zero), Range(Zero, PyInt(TRUE, <<1>>)), NoRange, BadRange}

ResDocs ==
    {Doc({}, "Single", <<Item(1, {}, "RW", "Single", "Mandatory", "Integer", r)>>)
        : r \in IntRanges}
    \cup {Doc({}, "Single",
              <<Item(1, {"RangeEnumeration"}, "RW", "Single", "Mandatory", t, NoRange)>>)
            : t \in {"Integer", "String"}}

InitRes == InitMain(ResDocs)

SpecRes == InitRes /\ [][Next]_vars


-----------------------------------------------------------------------------
(* Properties *)

Stages == {"file_head", "res_defs", "res_inst_count", "data_struct", "fields",
           "exec_cbs", "create_func", "init_func"}

\* the value types of the closed enumeration
SupportedTypes == {"String", "Integer", "Objlnk", "Float", "Opaque", "Time", "Boolean"}

\* an item of the document describes an execute resource
ItemIsExec(item) == item.operations \in {"E", "e"}

\* the model was built in this run: main() is past the constructors
Constructed == pc \in Stages \cup {"open", "done"} \/ (pc = "failed" /\ err = "Exception")

\* the document holds a non-execute item of a type outside the enumeration
DocHasUnsupportedType(doc) ==
    \E k \in 1..Len(doc.items) :
        ~ItemIsExec(doc.items[k]) /\ doc.items[k].type \notin SupportedTypes

\* C1: when a run ends in the unsupported-type error, no output file was
\* produced: the file is as it was before the run (absent if it was absent)
\* and no generator's text went into it.
C1_NoOutputOnUnsupportedType ==
    (pc = "failed" /\ err = "Exception" /\ DocHasUnsupportedType(argv.doc))
        => (file = preFile /\ (~preFile.exists => ~file.exists))

\* the smallest of 8, 16, 32, 64 that is at least bits
CoveringWidth(bits) ==
    IF bits <= 8 THEN 8 ELSE IF bits <= 16 THEN 16 ELSE IF bits <= 32 THEN 32 ELSE 64

\* C2: every Integer resource built from a declared range min..max has a
\* byteWidth in {8,16,32,64}, the smallest of them covering the bit length of
\* max, doubled when min < 0.
C2_WidthCoversMax ==
    Constructed =>
        \A k \in 1..Len(obj.resources) :
            LET item == argv.doc.items[k]
                res  == obj.resources[k]
                w    == CoveringWidth(MagBits(item.range.max.mag))
            IN  (item.type = "Integer" /\ item.range.kind = "range")
                    => /\ res.byte_size \in {8, 16, 32, 64}
                       /\ res.signed = Negative(item.range.min)
                       /\ res.byte_size = IF res.signed THEN 2 * w ELSE w

\* the item is an Integer with no declared range: the RangeEnumeration element
\* is missing or has no text, everything else being in place
IntegerWithoutRange(item) ==
    /\ item.type = "Integer"
    /\ item.absent \subseteq {"RangeEnumeration"}
    /\ item.operations # NoText
    /\ ("RangeEnumeration" \in item.absent \/ item.range.kind = "none")

\* C3: a document whose only item is an Integer with no declared range, the
\* element missing or empty, is constructed, with signed = true, byteWidth = 32.
C3_DefaultWidthWithoutRange ==
    (pc # "start" /\ argv.given /\ argv.doc.absent = {} /\ Len(argv.doc.items) = 1
        /\ IntegerWithoutRange(argv.doc.items[1]))
        => /\ Constructed
           /\ obj.resources[1].signed
           /\ obj.resources[1].byte_size = 32


\* a required element of the object or of one of its items is missing
DocMissesRequired(doc) ==
    \/ doc.absent \cap ObjElems # {}
    \/ \E k \in 1..Len(doc.items) : doc.items[k].absent \cap ItemElems # {}

\* C5: a run on a document that misses a required element fails in the
\* constructors, and the output file is never opened: it stays as it was.
C5_SchemaErrorBeforeOutput ==
    (argv.given /\ DocMissesRequired(argv.doc) /\ pc # "start")
        => /\ pc = "failed"
           /\ err = "AttributeError"
           /\ consumed = <<>>
           /\ file = preFile

\* a run on a document with a missing item element has failed, a file from an
\* earlier time being in place
C5_Witness ==
    /\ pc = "failed"
    /\ \E k \in 1..Len(argv.doc.items) : "Mandatory" \in argv.doc.items[k].absent
    /\ file = StaleFile

\* the order of the eight generators
StageOrder == <<"file_head", "res_defs", "res_inst_count", "data_struct", "fields",
                "exec_cbs", "create_func", "init_func">>

\* the whole text of a generator
StageText(s, o) ==
    CASE s = "file_head"      -> gen_file_head(o)
      [] s = "res_defs"       -> gen_res_defs(o)
      [] s = "res_inst_count" -> gen_res_inst_count(o)
      [] s = "data_struct"    -> gen_data_struct(o).frags
      [] s = "fields"         -> gen_fields(o).frags
      [] s = "exec_cbs"       -> gen_exec_cbs(o)
      [] s = "create_func"    -> gen_create_func(o)
      [] s = "init_func"      -> gen_init_func(o)

\* C6: while the file is being written it holds the complete texts of the
\* generators consumed so far, which are the first ones of the fixed order, each
\* once; a successful run has consumed all eight.
C6_StagesInOrder ==
    (pc \in Stages \cup {"done"})
        => /\ Len(consumed) <= Len(StageOrder)
           /\ consumed = SubSeq(StageOrder, 1, Len(consumed))
           /\ file.exists
           /\ file.content =
                  Flatten([i \in 1..Len(consumed) |-> StageText(consumed[i], obj)])
           /\ (pc = "done" => Len(consumed) = Len(StageOrder))
           /\ (pc \in Stages => pc = StageOrder[Len(consumed) + 1])

\* a run on an object with a mandatory execute resource and a multi-instance
\* data resource has finished
C6_Witness ==
    /\ pc = "done"
    /\ \E k \in 1..Len(obj.resources) : is_exec(obj.resources[k]) /\ obj.resources[k].mandatory
    /\ \E k \in 1..Len(obj.resources) : ~is_exec(obj.resources[k]) /\ ~obj.resources[k].singleton

\* C7: the second run on the same document leaves the file exactly as the
\* first run left it.
C7_SecondRunSameOutput ==
    (run = 2 /\ pc = "done") => (file = preFile /\ file.exists)

\* the second run on a document with resources has finished
C7_Witness ==
    /\ run = 2
    /\ pc = "done"
    /\ Len(obj.resources) > 1
    /\ Len(file.content) > 0


\* the set S of numbers in increasing order: its j-th member
Nth(S, j) == CHOOSE k \in S : Cardinality({m \in S : m < k}) = j - 1

\* the fragments of the file that start the definition of sym
DefinesOf(c, sym) ==
    {i \in 1..Len(c) : Len(c[i]) >= 2 /\ c[i][1] = "#define " /\ c[i][2] = sym}

\* C4: the emitted RESOURCE_INSTANCE_COUNT is MAX_ID - execCount -
\* nonSingletonDataCount, plus one MAX term for each non-singleton non-execute
\* field in field order (an execute field is no such field, whatever its
\* cardinality), and MAX_ID is defined as the number of fields.
C4_ResourceInstanceCount ==
    (pc \in {"data_struct", "fields", "exec_cbs", "create_func", "init_func", "done"})
        => LET c     == file.content
               items == argv.doc.items
               n     == Len(items)
               Exec  == {k \in 1..n : ItemIsExec(items[k])}
               Multi == {k \in 1..n : k \notin Exec /\ items[k].multi = "Multiple"}
               I     == DefinesOf(c, "RESOURCE_INSTANCE_COUNT")
           IN  /\ Cardinality(I) = 1
               /\ LET i == CHOOSE x \in I : TRUE IN
                  /\ c[i] = <<"#define ", "RESOURCE_INSTANCE_COUNT", " (",
                              "TEST_OBJECT_MAX_ID", " - ", ToString(Cardinality(Exec)),
                              " - ", ToString(Cardinality(Multi))>>
                  /\ \A j \in 1..Cardinality(Multi) :
                        /\ Len(c[i + j]) = 2
                        /\ c[i + j][2] = "TEST_OBJECT_"
                                          \o def_format(items[Nth(Multi, j)].name) \o "_MAX"
                  /\ c[i + Cardinality(Multi) + 1] = <<")\n">>
               /\ \E m \in 1..Len(c) :
                     c[m] = <<"#define ", "TEST_OBJECT_MAX_ID", " ", ToString(n), "\n">>

\* the formula of an object with a multi-instance execute field and a
\* multi-instance data field has been written
C4_Witness ==
    /\ pc = "done"
    /\ \E k \in 1..Len(obj.resources) : is_exec(obj.resources[k]) /\ ~obj.resources[k].singleton
    /\ \E k \in 1..Len(obj.resources) : ~is_exec(obj.resources[k]) /\ ~obj.resources[k].singleton

\* the fragments of the create function between the comment that opens the
\* initialization calls and the assignment of .resources
InitSection(c) ==
    LET start == CHOOSE i \in 1..Len(c) :
                     c[i] = <<"\t/* initialize instance resource data */\n">>
        stop  == CHOOSE i \in (start + 1)..Len(c) : c[i][1] = "\n\t"
    IN  SubSeq(c, start + 1, stop - 1)

\* the macro of a data field by cardinality and presence
DataMacro(multi, mandatory) ==
    CASE ~multi /\ mandatory  -> "INIT_OBJ_RES_DATA"
      [] ~multi /\ ~mandatory -> "INIT_OBJ_RES_OPTDATA"
      [] multi /\ mandatory   -> "INIT_OBJ_RES_MULTI_DATA"
      [] multi /\ ~mandatory  -> "INIT_OBJ_RES_MULTI_OPTDATA"

\* C9: the create function holds one initialization call per field, in field
\* order; the call of an execute field is the execute variant with the stub
\* name when mandatory and NULL when not; the call of a data field is the data
\* variant named MULTI_ iff non-singleton and OPT iff not mandatory, with the
\* MAX constant iff non-singleton and the pointer and size of the storage
\* member iff mandatory.
C9_InitCallPerField ==
    (pc \in {"init_func", "done"})
        => LET sec   == InitSection(file.content)
               items == argv.doc.items
               Ends  == {i \in 1..Len(sec) : sec[i] = <<");\n">>}
               From(k) == IF k = 1 THEN 1 ELSE Nth(Ends, k - 1) + 1
               Call(k) == Flatten(SubSeq(sec, From(k), Nth(Ends, k)))
           IN  /\ Cardinality(Ends) = Len(items)
               /\ (sec # <<>> => Len(sec) \in Ends)
               /\ \A k \in 1..Len(items) :
                     LET t      == Call(k)
                         it     == items[k]
                         multi  == it.multi = "Multiple"
                         mand   == it.mandatory = "Mandatory"
                         low    == name_format(it.name)
                         maxsym == "TEST_OBJECT_" \o def_format(it.name) \o "_MAX"
                         cb     == "state_" \o low \o "_exec_cb"
                         Has(x) == \E p \in 1..Len(t) : t[p] = x
                         Arg(x) == \E p \in 1..(Len(t) - 2) : t[p] = x /\ t[p + 2] = low
                     IN  /\ t[1] = "\t"
                         /\ t[3] = "("
                         /\ t[4] = "TEST_OBJECT_" \o def_format(it.name) \o "_ID"
                         /\ IF ItemIsExec(it)
                            THEN /\ t[2] = "INIT_OBJ_RES_EXECUTE"
                                 /\ Has(cb) = mand
                                 /\ Has("NULL") = ~mand
                                 /\ ~Has(maxsym) /\ ~Has("&") /\ ~Has("sizeof(")
                            ELSE /\ t[2] = DataMacro(multi, mand)
                                 /\ Has(maxsym) = multi
                                 /\ Arg("&") = mand
                                 /\ Arg("sizeof(") = mand
                                 /\ Has("&") = mand
                                 /\ ~Has(cb) /\ ~Has("NULL")

\* the create function of an object with an optional execute field and an
\* optional multi-instance data field has been written
C9_Witness ==
    /\ pc = "done"
    /\ \E k \in 1..Len(obj.resources) : is_exec(obj.resources[k]) /\ ~obj.resources[k].mandatory
    /\ \E k \in 1..Len(obj.resources) :
          /\ ~is_exec(obj.resources[k])
          /\ ~obj.resources[k].singleton
          /\ ~obj.resources[k].mandatory

\* C10: in a finished output, a MAX constant is used only if defined (and is
\* used for the non-singleton data fields); MAX_INSTANCE_COUNT is used exactly
\* when the object is non-singleton, which is when it is defined; a callback
\* passed to an initialization call has a stub, stubs being there exactly for
\* the mandatory execute fields; a storage member whose address is passed is a
\* member of the data structure, members being there exactly for the
\* non-execute fields.
C10_ReferencedSymbolsDefined ==
    (pc = "done")
        => LET c     == file.content
               items == argv.doc.items
               Defines(sym) == DefinesOf(c, sym) # {}
               Uses(sym) ==
                   \E i \in 1..Len(c) : \E j \in 1..Len(c[i]) :
                       /\ c[i][j] = sym
                       /\ ~(c[i][1] = "#define " /\ j = 2)
                       /\ c[i][1] # " * add "
               multiObj == argv.doc.multi = "Multiple"
           IN  /\ Uses("MAX_INSTANCE_COUNT") = multiObj
               /\ Defines("MAX_INSTANCE_COUNT") = multiObj
               /\ \A k \in 1..Len(items) :
                     LET it     == items[k]
                         low    == name_format(it.name)
                         maxsym == "TEST_OBJECT_" \o def_format(it.name) \o "_MAX"
                         cb     == "state_" \o low \o "_exec_cb"
                         Stub   == \E i \in 1..Len(c) :
                                      c[i] = <<"static int ", cb, "(uint16_t obj_inst_id)\n">>
                         Passed == \E i \in 1..Len(c) : c[i] = <<cb>>
                         Member == \E i \in 1..Len(c) :
                                      /\ Len(c[i]) = 6
                                      /\ c[i][1] = "\t"
                                      /\ c[i][4] = low
                                      /\ c[i][6] = ";\n"
                         Addressed == \E i \in 1..Len(c) :
                                      /\ Len(c[i]) = 5
                                      /\ c[i][2] = "&"
                                      /\ c[i][4] = low
                     IN  /\ Uses(maxsym) => Defines(maxsym)
                         /\ Uses(maxsym) = (~ItemIsExec(it) /\ it.multi = "Multiple")
                         /\ Passed => Stub
                         /\ Stub = (ItemIsExec(it) /\ it.mandatory = "Mandatory")
                         /\ Addressed => Member
                         /\ Member = ~ItemIsExec(it)

\* the output of a multi-instance object with a mandatory execute field whose
\* operations are in lower case and a mandatory multi-instance data field is
\* finished
C10_Witness ==
    /\ pc = "done"
    /\ ~obj.singleton
    /\ \E k \in 1..Len(obj.resources) :
          obj.resources[k].operations = "e" /\ obj.resources[k].mandatory
    /\ \E k \in 1..Len(obj.resources) :
          /\ ~is_exec(obj.resources[k])
          /\ ~obj.resources[k].singleton
          /\ obj.resources[k].mandatory

\* C8: the last create call returned NULL if an occupied slot held the
\* requested id or no slot was free, and the lowest free slot otherwise; no
\* two occupied slots hold the same id, and the slot returned was free.
C8_SlotResolution ==
    /\ \A i, j \in 1..Len(inst) :
          (inst[i].obj /\ inst[j].obj /\ inst[i].obj_inst_id = inst[j].obj_inst_id)
              => i = j
    /\ (req >= 0)
        => LET Free   == {i \in 0..(Len(instPre) - 1) : ~instPre[i + 1].obj}
               Exists == \E i \in 1..Len(instPre) :
                             instPre[i].obj /\ instPre[i].obj_inst_id = req
           IN  /\ (Exists \/ Free = {}) => ret = NULL
               /\ ~(Exists \/ Free = {})
                     => /\ ret \in Free
                        /\ \A i \in Free : ret <= i

\* a create call was refused for an id held by a slot behind a free slot
C8_Witness ==
    /\ req >= 0
    /\ ret = NULL
    /\ \E i, j \in 1..Len(instPre) :
          /\ i < j
          /\ ~instPre[i].obj
          /\ instPre[j].obj
          /\ instPre[j].obj_inst_id = req


====
